---- MODULE Spec2Model ----
(***************************************************************************)
(* Model of custom_components/smart_shutter_position/cover.py: the         *)
(* SmartShutterCover entity (position estimator and movement controller).  *)
(*                                                                         *)
(* Every coroutine of the entity runs on one asyncio event loop.  An       *)
(* action of this model is the code that runs between two suspension       *)
(* points: from the call (or the resumption) of a coroutine up to its next *)
(* `await` that can suspend, or its return.  The suspension points are     *)
(*   - await self.hass.services.async_call(...)   (device I/O)             *)
(*   - await self._position_timer                  (_cancel_position_timer)*)
(*   - await asyncio.sleep(delay)                  (_async_position_timer) *)
(*                                                                         *)
(* Time is counted in ticks.  time.monotonic() is only ever used as the    *)
(* difference  time.monotonic() - self._movement_start_time, so the model  *)
(* keeps that difference (movement_elapsed) instead of the two absolute    *)
(* times; asyncio.sleep(delay) is kept as the time that remains, in        *)
(* hundredths of a tick.                                                   *)
(***************************************************************************)
EXTENDS Integers, FiniteSets, Sequences, TLC

VARIABLES
    current_position,         \* self._current_position
    target_position,          \* self._target_position
    movement_elapsed,         \* time.monotonic() - self._movement_start_time, Unset if None
    movement_start_position,  \* self._movement_start_position
    movement_direction,       \* self._movement_direction
    movement_owner,           \* history: the command that started the movement under way,
                              \* and whether the device has taken its Open/Close
    position_timer,           \* self._position_timer: Unset or the id of a timer task
    timers,                   \* the _async_position_timer tasks of the event loop
    coros,                    \* the command coroutines (open/close/stop/set_position) in flight
    source_state,             \* hass.states.get(self._source_entity_id).state, None if no state
    supports_stop,            \* ATTR_SUPPORTED_FEATURES of the source has CoverEntityFeature.STOP
    calls,                    \* how many commands callers have started so far
    removal,                  \* the state listener's subscription and async_will_remove_from_hass
    flow,                     \* the calibration wizard (config_flow.py) and its progress task
    device_call               \* the service the device accepted in the latest step, None if none

vars == <<current_position, target_position, movement_elapsed, movement_start_position,
          movement_direction, movement_owner, position_timer, timers, coros, source_state, supports_stop,
          calls, removal, flow, device_call>>

\* The variables of the entity (cover.py), all but the source's state.
cover_vars == <<current_position, target_position, movement_elapsed, movement_start_position,
                movement_direction, movement_owner, position_timer, timers, coros,
                supports_stop, calls, removal, device_call>>

---------------------------------------------------------------------------
(* Constants of const.py and of homeassistant.const *)

\* Python's None: in a field that holds a string, and in one that holds a number.
None == "None"
Unset == -1

POSITION_OPEN == 100
POSITION_CLOSED == 0

STATE_OPENING == "opening"
STATE_CLOSING == "closing"
STATE_OPEN == "open"
STATE_CLOSED == "closed"

SERVICE_OPEN_COVER == "open_cover"
SERVICE_CLOSE_COVER == "close_cover"
SERVICE_STOP_COVER == "stop_cover"

\* const.py, in seconds
DEFAULT_TIMEOUT == 60

---------------------------------------------------------------------------
(* Bounds and inputs *)

\* Largest number of command coroutines in flight at once.
MaxCoros == 2
\* Largest number of commands callers start in one run.
MaxCalls == 3

\* Calibration constants handed to __init__, in ticks (both > 0).
time_to_open == 2
time_to_close == 1

\* Positions a caller asks for (ATTR_POSITION of the set_cover_position service).
Targets == {50}
\* Positions outside 0..100 that a caller hands to async_set_cover_position.
OutOfRangeTargets == {150}
\* Positions async_added_to_hass restores (0 is the constructor's value).
RestoredPositions == {30}

\* A command is known by its number, 1 for the first one a caller starts; the
\* timer task that a set_cover_position creates is known by that number too.
CoroIds == 1..MaxCalls
TimerIds == 1..MaxCalls

\* A source state event: the new state and its current_position attribute.
\* state None is the event of the source entity being removed (new_state is None).
SourceEvents ==
    { [state |-> STATE_OPENING, position |-> Unset],
      [state |-> STATE_CLOSING, position |-> Unset],
      [state |-> STATE_OPEN, position |-> 100],
      [state |-> STATE_CLOSED, position |-> 0],
      [state |-> None, position |-> Unset] }

Max(a, b) == IF a >= b THEN a ELSE b
Min(a, b) == IF a <= b THEN a ELSE b
Abs(a) == IF a >= 0 THEN a ELSE -a

\* Past this many ticks the estimate of either direction is clamped for good.
ElapsedCap == Max(time_to_open, time_to_close)

---------------------------------------------------------------------------
(* Tasks *)

FreeTimer == [st |-> "free", remaining |-> 0, target |-> 0, service |-> None]
FreeCoro == [op |-> None, pc |-> "free", position |-> 0, service |-> None,
             travel_time |-> 0, waiting |-> Unset]
NoOwner == [call |-> 0, op |-> None, sent |-> FALSE]
\* The entity as async_added_to_hass leaves it: its listener subscribed
\* (self._unsub_state_change set) and async_will_remove_from_hass not called.
NotRemoved == [pc |-> "free", waiting |-> Unset, subscribed |-> TRUE]

\* task.done() is false
NotDone(t) == t.st \in {"sleeping", "settling", "cancelling"}

\* The entity's fields and the loop's timer tasks, as one value that the
\* code of a step transforms.
Self == [current_position |-> current_position,
         target_position |-> target_position,
         movement_elapsed |-> movement_elapsed,
         movement_start_position |-> movement_start_position,
         movement_direction |-> movement_direction,
         movement_owner |-> movement_owner,
         position_timer |-> position_timer,
         timers |-> timers]

---------------------------------------------------------------------------
(* The position calculator *)

_is_moving(s) == s.movement_direction # None

\* Python's int() of the rational n / d (d > 0): truncation toward zero.
IntTrunc(n, d) == IF n >= 0 THEN n \div d ELSE -((-n) \div d)

\* The estimate without its final max(POSITION_CLOSED, min(POSITION_OPEN, ...)).
Unclamped_calculate_current_position(s) ==
    IF s.movement_elapsed = Unset \/ s.movement_start_position = Unset
    THEN s.current_position
    ELSE IF s.movement_direction = "opening"
         THEN IntTrunc(s.movement_start_position * time_to_open + s.movement_elapsed * 100,
                       time_to_open)
         ELSE IntTrunc(s.movement_start_position * time_to_close - s.movement_elapsed * 100,
                       time_to_close)

\* new_position = start +/- (elapsed / time_for_full) * 100, as the rational
\* (start * time_for_full +/- elapsed * 100) / time_for_full.
_calculate_current_position(s) ==
    IF s.movement_elapsed = Unset \/ s.movement_start_position = Unset
    THEN s.current_position
    ELSE LET elapsed == s.movement_elapsed
             new_position_num ==
                 IF s.movement_direction = "opening"
                 THEN s.movement_start_position * time_to_open + elapsed * 100
                 ELSE s.movement_start_position * time_to_close - elapsed * 100
             time_for_full ==
                 IF s.movement_direction = "opening" THEN time_to_open ELSE time_to_close
         IN Max(POSITION_CLOSED, Min(POSITION_OPEN, IntTrunc(new_position_num, time_for_full)))

current_cover_position(s) ==
    IF _is_moving(s) THEN _calculate_current_position(s) ELSE s.current_position

---------------------------------------------------------------------------
(* Tracking of a movement *)

\* The clearing of a movement without its last assignment (212, 264, 353):
\* the target is left behind.
KeepsTarget_ClearMovement(s) ==
    [s EXCEPT !.movement_owner = NoOwner,
              !.movement_direction = None,
              !.movement_elapsed = Unset,
              !.movement_start_position = Unset]

\* The four assignments that _async_stop_cover_internal (261-264),
\* _finalize_movement (209-212) and _async_position_timer (350-353) share.
ClearMovement(s) ==
    [s EXCEPT !.movement_owner = NoOwner,
              !.movement_direction = None,
              !.movement_elapsed = Unset,
              !.movement_start_position = Unset,
              !.target_position = Unset]

_start_movement(s, direction, target) ==
    [s EXCEPT !.movement_direction = direction,
              !.movement_elapsed = 0,
              !.movement_start_position = s.current_position,
              !.target_position = target]

\* if self._position_timer and not self._position_timer.done()
TimerNotDone(s) ==
    /\ s.position_timer # Unset
    /\ NotDone(s.timers[s.position_timer])

\* task.cancel(): the task is thrown CancelledError the next time it runs.
CancelTimer(s) ==
    [s EXCEPT !.timers[s.position_timer] = [FreeTimer EXCEPT !.st = "cancelling"]]

\* _finalize_movement without line 208: the believed position is left as it was.
KeepsPosition_finalize_movement(s, position) ==
    LET s1 == ClearMovement(s)
    IN IF TimerNotDone(s1)
       THEN [CancelTimer(s1) EXCEPT !.position_timer = Unset]
       ELSE s1

\* _finalize_movement without lines 214-216: the timer is left armed.
NoCancel_finalize_movement(s, position) ==
    ClearMovement([s EXCEPT !.current_position = position])

_finalize_movement(s, position) ==
    LET s1 == ClearMovement([s EXCEPT !.current_position = position])
    IN IF TimerNotDone(s1)
       THEN [CancelTimer(s1) EXCEPT !.position_timer = Unset]
       ELSE s1

\* The settle command that repeats the direction the source reports instead
\* of reversing it.
SameDirection_SettleService ==
    IF source_state = None THEN None
    ELSE IF supports_stop THEN SERVICE_STOP_COVER
    ELSE IF source_state = STATE_OPENING THEN SERVICE_OPEN_COVER
    ELSE IF source_state = STATE_CLOSING THEN SERVICE_CLOSE_COVER
    ELSE None

\* The settle command without the test of CoverEntityFeature.STOP (270-271,
\* 357-358): the reported direction is reversed on every device.
NoStopFeature_SettleService ==
    IF source_state = None THEN None
    ELSE IF source_state = STATE_OPENING THEN SERVICE_CLOSE_COVER
    ELSE IF source_state = STATE_CLOSING THEN SERVICE_OPEN_COVER
    ELSE None

\* The settle command of _async_stop_cover_internal (268-289) and of
\* _async_position_timer (355-376); None if no service is called.
SettleService ==
    IF source_state = None THEN None
    ELSE IF supports_stop THEN SERVICE_STOP_COVER
    ELSE IF source_state = STATE_OPENING THEN SERVICE_CLOSE_COVER
    ELSE IF source_state = STATE_CLOSING THEN SERVICE_OPEN_COVER
    ELSE None

---------------------------------------------------------------------------
(* The command coroutines.  Each operator runs the code from one point of   *)
(* a command up to its next suspension (or its return) and yields the new   *)
(* fields s and the coroutine's new record co (FreeCoro once it returned).  *)

Returned(s) == [s |-> s, co |-> FreeCoro]
Suspended(s, co) == [s |-> s, co |-> co]

\* (history) the movement just started is the command c's
OwnedBy(s, c, co) ==
    [s EXCEPT !.movement_owner = [call |-> c, op |-> co.op, sent |-> FALSE]]

\* (history) the device has taken the Open/Close of the command c: of the
\* movement under way, if that movement is still the command's
Sent(s, c) ==
    IF s.movement_owner.call = c THEN [s EXCEPT !.movement_owner.sent = TRUE] ELSE s

\* async_set_cover_position with the two calibration constants taken the
\* wrong way round.
SwappedTimes_SetPositionBody(s, c, co) ==
    LET position == co.position
        delta == position - s.current_position
        direction == IF delta > 0 THEN "opening" ELSE "closing"
        time_for_full == IF delta > 0 THEN time_to_close ELSE time_to_open
        service == IF delta > 0 THEN SERVICE_OPEN_COVER ELSE SERVICE_CLOSE_COVER
        travel_time == Abs(delta) * time_for_full
    IN IF position = s.current_position
       THEN Returned(s)
       ELSE Suspended(OwnedBy(_start_movement([s EXCEPT !.target_position = position],
                                              direction, position), c, co),
                      [co EXCEPT !.pc = "await_move", !.service = service,
                                 !.travel_time = travel_time])

\* async_set_cover_position, lines 307-330
SetPositionBody(s, c, co) ==
    LET position == co.position
        delta == position - s.current_position
        direction == IF delta > 0 THEN "opening" ELSE "closing"
        time_for_full == IF delta > 0 THEN time_to_open ELSE time_to_close
        service == IF delta > 0 THEN SERVICE_OPEN_COVER ELSE SERVICE_CLOSE_COVER
        \* (abs(delta) / 100) * time_for_full ticks, in hundredths of a tick
        travel_time == Abs(delta) * time_for_full
    IN IF position = s.current_position
       THEN Returned(s)
       ELSE Suspended(OwnedBy(_start_movement([s EXCEPT !.target_position = position],
                                              direction, position), c, co),
                      [co EXCEPT !.pc = "await_move", !.service = service,
                                 !.travel_time = travel_time])

\* What follows `await self._async_stop_and_calculate_position()` in
\* async_open_cover (232-238), async_close_cover (244-250) and
\* async_set_cover_position (307-330); async_stop_cover returns.
CommandBody(s, c, co) ==
    CASE co.op = "open" ->
           Suspended(OwnedBy(_start_movement(s, "opening", POSITION_OPEN), c, co),
                     [co EXCEPT !.pc = "await_move", !.service = SERVICE_OPEN_COVER])
      [] co.op = "close" ->
           Suspended(OwnedBy(_start_movement(s, "closing", POSITION_CLOSED), c, co),
                     [co EXCEPT !.pc = "await_move", !.service = SERVICE_CLOSE_COVER])
      [] co.op = "set" -> SetPositionBody(s, c, co)
      [] co.op = "stop" -> Returned(s)

\* _async_stop_cover_internal from line 268: the settle command
SettleFrom(s, c, co) ==
    IF SettleService # None
    THEN Suspended(s, [co EXCEPT !.pc = "await_settle", !.service = SettleService])
    ELSE CommandBody(s, c, co)

\* _cancel_position_timer, up to `await self._position_timer`
_cancel_position_timer(s, c, co) ==
    IF TimerNotDone(s)
    THEN Suspended(CancelTimer(s),
                   [co EXCEPT !.pc = "await_cancel", !.waiting = s.position_timer])
    ELSE SettleFrom(s, c, co)

\* _async_stop_cover_internal, lines 258-266
_async_stop_cover_internal(s, c, co) ==
    LET s1 == IF _is_moving(s)
              THEN [s EXCEPT !.current_position = _calculate_current_position(s)]
              ELSE s
    IN _cancel_position_timer(ClearMovement(s1), c, co)

\* _async_stop_and_calculate_position, then the rest of the command
_async_stop_and_calculate_position(s, c, co) ==
    IF _is_moving(s)
    THEN _async_stop_cover_internal(
             [s EXCEPT !.current_position = _calculate_current_position(s)], c, co)
    ELSE CommandBody(s, c, co)

\* The first step of a command: async_open_cover, async_close_cover,
\* async_set_cover_position (position is not None) or async_stop_cover.
CommandEntry(s, c, co) ==
    IF co.op = "stop"
    THEN _async_stop_cover_internal(s, c, co)
    ELSE _async_stop_and_calculate_position(s, c, co)

---------------------------------------------------------------------------
(* The event loop's bookkeeping *)

\* A finished task is dropped once nothing refers to it: neither
\* self._position_timer nor a coroutine awaiting it (a command cs[c] or the
\* removal rm).
Collect(s, cs, rm) ==
    [s EXCEPT !.timers =
        [t \in TimerIds |->
            IF /\ s.timers[t].st = "done"
               /\ s.position_timer # t
               /\ \A c \in CoroIds : cs[c].waiting # t
               /\ rm.waiting # t
            THEN FreeTimer
            ELSE s.timers[t]]]

\* The step leaves the fields s, the coroutines cs and the removal rm, and
\* the device accepted call.
CommitAll(s, cs, call, rm) ==
    LET g == Collect(s, cs, rm)
    IN /\ removal' = rm
       /\ flow' = flow
       /\ current_position' = g.current_position
       /\ target_position' = g.target_position
       /\ movement_elapsed' = g.movement_elapsed
       /\ movement_start_position' = g.movement_start_position
       /\ movement_direction' = g.movement_direction
       /\ movement_owner' = g.movement_owner
       /\ position_timer' = g.position_timer
       /\ timers' = g.timers
       /\ coros' = cs
       /\ device_call' = call

\* A step of a command, of a timer or of the listener: the removal stays as it is.
Commit(s, cs, call) == CommitAll(s, cs, call, removal)

InFlight == {c \in CoroIds : coros[c].pc # "free"}

\* self.hass.async_create_task(self._async_position_timer(travel_time, position))
\* and its assignment to self._position_timer (332-334), by command c
CreateTimer(s, c, delay, target_position_arg) ==
    [s EXCEPT !.timers[c] = [st |-> "sleeping", remaining |-> delay,
                             target |-> target_position_arg, service |-> None],
              !.position_timer = c]

---------------------------------------------------------------------------
(* Actions: the commands *)

\* A caller starts open, close, stop or set_position(position): the code up
\* to the command's first suspension.  Services are called on an entity
\* that is not being removed.
Invoke(op, position) ==
    /\ removal.pc = "free"
    /\ calls < MaxCalls
    /\ Cardinality(InFlight) < MaxCoros
    /\ calls' = calls + 1
    /\ LET c == calls + 1
           r == CommandEntry(Self, c, [FreeCoro EXCEPT !.op = op, !.position = position])
       IN Commit(r.s, [coros EXCEPT ![c] = r.co], None)
    /\ UNCHANGED <<source_state, supports_stop>>

async_open_cover == Invoke("open", 0)
async_close_cover == Invoke("close", 0)
async_stop_cover == Invoke("stop", 0)
async_set_cover_position == \E position \in Targets : Invoke("set", position)

\* async_set_cover_position called with a position outside 0..100: the
\* method has no test of the range (301-305).
async_set_cover_position_out_of_range ==
    \E position \in OutOfRangeTargets : Invoke("set", position)

\* `await self._position_timer` returns: the cancelled task has finished.
\* _cancel_position_timer line 226, then _async_stop_cover_internal from 268.
ResumeCancel(c) ==
    /\ coros[c].pc = "await_cancel"
    /\ timers[coros[c].waiting].st = "done"
    /\ LET r == SettleFrom([Self EXCEPT !.position_timer = Unset], c,
                           [coros[c] EXCEPT !.waiting = Unset])
       IN Commit(r.s, [coros EXCEPT ![c] = r.co], None)
    /\ UNCHANGED <<source_state, supports_stop, calls>>

\* The settle call of _async_stop_cover_internal returns: the device took it.
ResumeSettle(c) ==
    /\ coros[c].pc = "await_settle"
    /\ LET r == CommandBody(Self, c, [coros[c] EXCEPT !.service = None])
       IN Commit(r.s, [coros EXCEPT ![c] = r.co], coros[c].service)
    /\ UNCHANGED <<source_state, supports_stop, calls>>

\* The Open/Close call of a command returns: the device took it.
\* async_set_cover_position then creates its timer task (332-334).
ResumeMove(c) ==
    /\ coros[c].pc = "await_move"
    /\ LET cs == [coros EXCEPT ![c] = FreeCoro]
           s == IF coros[c].op = "set"
                THEN CreateTimer(Sent(Self, c), c, coros[c].travel_time, coros[c].position)
                ELSE Sent(Self, c)
       IN Commit(s, cs, coros[c].service)
    /\ UNCHANGED <<source_state, supports_stop, calls>>

\* A service call of a command raises (the device adapter did not accept
\* it): the exception ends the command where it stands.
CallFails(c) ==
    /\ coros[c].pc \in {"await_settle", "await_move"}
    /\ Commit(Self, [coros EXCEPT ![c] = FreeCoro], None)
    /\ UNCHANGED <<source_state, supports_stop, calls>>

---------------------------------------------------------------------------
(* Actions: the timer task, _async_position_timer *)

\* The timer's body without line 349: the believed position is left as it was.
KeepsPosition_async_position_timer(s, t) ==
    LET s1 == ClearMovement(s)
    IN IF SettleService # None
       THEN [s1 EXCEPT !.timers[t] = [FreeTimer EXCEPT !.st = "settling",
                                                     !.service = SettleService]]
       ELSE [s1 EXCEPT !.timers[t] = [FreeTimer EXCEPT !.st = "done"]]

\* asyncio.sleep(delay) is over: lines 349-376 up to the settle call
_async_position_timer(s, t) ==
    LET target_position_arg == s.timers[t].target
        s1 == ClearMovement([s EXCEPT !.current_position = target_position_arg])
    IN IF SettleService # None
       THEN [s1 EXCEPT !.timers[t] = [FreeTimer EXCEPT !.st = "settling",
                                                     !.service = SettleService]]
       ELSE [s1 EXCEPT !.timers[t] = [FreeTimer EXCEPT !.st = "done"]]

\* The timer task t runs once its sleep is over.
TimerFire(t) ==
    /\ timers[t].st = "sleeping"
    /\ timers[t].remaining = 0
    /\ Commit(_async_position_timer(Self, t), coros, None)
    /\ UNCHANGED <<source_state, supports_stop, calls>>

\* The timer's settle call returns: the device took it; the task ends.
TimerSettled(t) ==
    /\ timers[t].st = "settling"
    /\ Commit([Self EXCEPT !.timers[t] = [FreeTimer EXCEPT !.st = "done"]], coros,
              timers[t].service)
    /\ UNCHANGED <<source_state, supports_stop, calls>>

\* The timer's settle call raises: the task ends with the exception.
TimerCallFails(t) ==
    /\ timers[t].st = "settling"
    /\ Commit([Self EXCEPT !.timers[t] = [FreeTimer EXCEPT !.st = "done"]], coros, None)
    /\ UNCHANGED <<source_state, supports_stop, calls>>

\* A cancelled task runs: CancelledError is raised at its await and caught
\* on line 380; the task ends.
TimerCancelled(t) ==
    /\ timers[t].st = "cancelling"
    /\ Commit([Self EXCEPT !.timers[t] = [FreeTimer EXCEPT !.st = "done"]], coros, None)
    /\ UNCHANGED <<source_state, supports_stop, calls>>

---------------------------------------------------------------------------
(* Actions: the removal of the entity, async_will_remove_from_hass *)

\* Lines 186-188 up to `await self._position_timer` in _cancel_position_timer
\* (or to the return, if there is no timer to cancel).
async_will_remove_from_hass ==
    /\ removal.pc = "free"
    /\ IF TimerNotDone(Self)
       THEN CommitAll(CancelTimer(Self), coros, None,
                      [pc |-> "await_cancel", waiting |-> position_timer,
                       subscribed |-> FALSE])
       ELSE CommitAll(Self, coros, None,
                      [pc |-> "done", waiting |-> Unset, subscribed |-> FALSE])
    /\ UNCHANGED <<source_state, supports_stop, calls>>

\* `await self._position_timer` of the removal returns: line 226, and
\* async_will_remove_from_hass has completed.
ResumeRemove ==
    /\ removal.pc = "await_cancel"
    /\ timers[removal.waiting].st = "done"
    /\ CommitAll([Self EXCEPT !.position_timer = Unset], coros, None,
                 [removal EXCEPT !.pc = "done", !.waiting = Unset])
    /\ UNCHANGED <<source_state, supports_stop, calls>>

---------------------------------------------------------------------------
(* Actions: the environment *)

\* The source entity's state changes; the state machine holds the new
\* state when the listener runs.
_async_source_state_changed(event) ==
    /\ removal.subscribed
    /\ source_state' = event.state
    /\ LET s == IF event.state = None THEN Self
                ELSE IF event.position = 0 THEN _finalize_movement(Self, POSITION_CLOSED)
                ELSE IF event.position = 100 THEN _finalize_movement(Self, POSITION_OPEN)
                ELSE Self
       IN Commit(s, coros, None)
    /\ UNCHANGED <<supports_stop, calls>>

\* The source entity's state changes after self._unsub_state_change() has
\* been called: the listener no longer runs.
SourceStateUnheard(event) ==
    /\ ~removal.subscribed
    /\ source_state' = event.state
    /\ Commit(Self, coros, None)
    /\ UNCHANGED <<supports_stop, calls>>

\* One tick of time passes.
Tick ==
    /\ movement_elapsed' = IF movement_elapsed = Unset THEN Unset
                           ELSE Min(movement_elapsed + 1, ElapsedCap)
    /\ timers' = [t \in TimerIds |->
                    IF timers[t].st = "sleeping"
                    THEN [timers[t] EXCEPT !.remaining = Max(0, @ - 100)]
                    ELSE timers[t]]
    /\ device_call' = None
    /\ UNCHANGED <<current_position, target_position, movement_start_position,
                   movement_direction, movement_owner, position_timer, coros, source_state,
                   supports_stop, calls, removal, flow>>

---------------------------------------------------------------------------
(* The calibration wizard, config_flow.py.  Its durations are kept in       *)
(* hundredths of a second.                                                  *)

Centi(seconds) == seconds * 100

\* round(x, 1) of a duration: to the nearest tenth of a second (the inputs
\* below are never half way between two tenths).
Round1(h) == ((h + 5) \div 10) * 10

\* self._selected_covers, as async_step_user stores it
selected_covers == <<"cover.a", "cover.b">>

\* How long the open_cover / close_cover service call of a measurement takes.
CallDelays == {4, 26}
\* The lengths of time that pass at once while a measurement waits.
WaitTicks == {3000}

\* The states a cover reports to the wizard's listener (None: it is removed).
ReportedStates == {STATE_OPENING, STATE_CLOSING, STATE_OPEN, STATE_CLOSED, None}

\* __init__ (59-69).  task is the progress task of the step: "none",
\* "await_call" (at the service call), "waiting" (in asyncio.wait_for),
\* "finished" or "raised"; since_start is time.monotonic() - start_time and
\* waited the time spent in asyncio.wait_for; listening is false once unsub()
\* has run; warned says that the task has logged its timeout warning.
NewFlow ==
    [step |-> "user", task |-> "none", since_start |-> 0, waited |-> 0,
     state_changed |-> FALSE, listening |-> FALSE, warned |-> FALSE,
     time_to_close |-> 0, time_to_open |-> 0,
     current_cover_index |-> 0, calibration_data |-> <<>>]

\* The state the listener of a step's task waits for (137, 189, 241).
AwaitedState(step) == IF step = "calibrate_close" THEN STATE_CLOSED ELSE STATE_OPEN

\* A progress task starts: state_changed = asyncio.Event(), the listener is
\* subscribed, start_time = time.monotonic(), and the service is called.
StartTask(f, step) ==
    [f EXCEPT !.step = step, !.task = "await_call", !.since_start = 0, !.waited = 0,
              !.state_changed = FALSE, !.listening = TRUE, !.warned = FALSE]

\* A progress task ends (how: "finished" or "raised"): finally: unsub().
EndTask(f, how) ==
    [f EXCEPT !.task = how, !.since_start = 0, !.waited = 0,
              !.state_changed = FALSE, !.listening = FALSE]

\* _async_pre_open_cover up to its first await: it returns at once if the
\* cover already reports open (145-147).
_async_pre_open_cover(f, current_state) ==
    IF current_state = STATE_OPEN
    THEN EndTask(StartTask(f, "calibrate_pre_open"), "finished")
    ELSE StartTask(f, "calibrate_pre_open")

\* asyncio.wait_for has returned: lines 205 and 257.
Measured(f) ==
    CASE f.step = "calibrate_close" ->
           EndTask([f EXCEPT !.time_to_close = Round1(f.since_start)], "finished")
      [] f.step = "calibrate_open" ->
           EndTask([f EXCEPT !.time_to_open = Round1(f.since_start)], "finished")
      [] OTHER -> EndTask(f, "finished")

\* The except branch of a measurement that leaves the travel time as it was.
Unrecorded_TimedOut(f) == EndTask([f EXCEPT !.warned = TRUE], "finished")

\* asyncio.wait_for has raised TimeoutError: lines 206-208, 258-260, 155-156.
TimedOut(f) ==
    CASE f.step = "calibrate_close" ->
           EndTask([f EXCEPT !.time_to_close = Centi(DEFAULT_TIMEOUT), !.warned = TRUE],
                   "finished")
      [] f.step = "calibrate_open" ->
           EndTask([f EXCEPT !.time_to_open = Centi(DEFAULT_TIMEOUT), !.warned = TRUE],
                   "finished")
      [] OTHER -> EndTask([f EXCEPT !.warned = TRUE], "finished")

\* async_step_user with a selection (87-89): on to the pre-open step.
async_step_user ==
    /\ flow.step = "user"
    /\ flow' = _async_pre_open_cover([flow EXCEPT !.current_cover_index = 0], source_state)
    /\ UNCHANGED <<cover_vars, source_state>>

\* The service call of a progress task returns, after delay.
CalibrationCallReturns(delay) ==
    /\ flow.task = "await_call"
    /\ flow' = [flow EXCEPT !.task = "waiting", !.since_start = @ + delay]
    /\ UNCHANGED <<cover_vars, source_state>>

\* The service call of a progress task raises: the task ends with it.
CalibrationCallFails ==
    /\ flow.task = "await_call"
    /\ flow' = EndTask(flow, "raised")
    /\ UNCHANGED <<cover_vars, source_state>>

\* The cover reports a state: state_listener sets the event if it is the
\* awaited one (186-190, 238-242, 134-138).
state_listener(state) ==
    /\ flow.step \notin {"user", "created"}
    /\ source_state' = state
    /\ flow' = IF flow.listening /\ state # None /\ state = AwaitedState(flow.step)
               THEN [flow EXCEPT !.state_changed = TRUE]
               ELSE flow
    /\ UNCHANGED cover_vars

\* Time passes while a task waits in asyncio.wait_for.
WaitTick ==
    /\ flow.task = "waiting"
    /\ flow.waited < Centi(DEFAULT_TIMEOUT)
    /\ \E d \in WaitTicks :
          flow' = [flow EXCEPT !.waited = Min(@ + d, Centi(DEFAULT_TIMEOUT)),
                               !.since_start = @ + Min(d, Centi(DEFAULT_TIMEOUT) - flow.waited)]
    /\ UNCHANGED <<cover_vars, source_state>>

\* state_changed.wait() returns within the timeout.
WaitReturns ==
    /\ flow.task = "waiting"
    /\ flow.state_changed
    /\ flow' = Measured(flow)
    /\ UNCHANGED <<cover_vars, source_state>>

\* The timeout of asyncio.wait_for has passed.
WaitTimesOut ==
    /\ flow.task = "waiting"
    /\ flow.waited = Centi(DEFAULT_TIMEOUT)
    /\ flow' = TimedOut(flow)
    /\ UNCHANGED <<cover_vars, source_state>>

\* The three steps that follow a progress task that has finished.
async_step_calibrate_pre_open_done ==
    /\ flow.step = "calibrate_pre_open"
    /\ flow.task = "finished"
    /\ flow' = StartTask(flow, "calibrate_close")
    /\ UNCHANGED <<cover_vars, source_state>>

async_step_calibrate_close_done ==
    /\ flow.step = "calibrate_close"
    /\ flow.task = "finished"
    /\ flow' = StartTask(flow, "calibrate_open")
    /\ UNCHANGED <<cover_vars, source_state>>

async_step_calibrate_open_done ==
    /\ flow.step = "calibrate_open"
    /\ flow.task = "finished"
    /\ flow' = [flow EXCEPT !.step = "calibrate_result", !.task = "none", !.warned = FALSE]
    /\ UNCHANGED <<cover_vars, source_state>>

\* async_step_calibrate_result with user_input (277-294): the record of the
\* cover is stored; then the next cover (whose state is its own), or the entry.
async_step_calibrate_result ==
    /\ flow.step = "calibrate_result"
    /\ LET entity_id == selected_covers[flow.current_cover_index + 1]
           f == [flow EXCEPT
                    !.calibration_data =
                        Append(@, [source_entity |-> entity_id,
                                   time_to_close |-> flow.time_to_close,
                                   time_to_open |-> flow.time_to_open]),
                    !.current_cover_index = @ + 1]
       IN IF f.current_cover_index < Len(selected_covers)
          THEN \E current_state \in {None, STATE_OPEN, STATE_CLOSED} :
                  /\ source_state' = current_state
                  /\ flow' = _async_pre_open_cover(
                                 [f EXCEPT !.time_to_close = 0, !.time_to_open = 0],
                                 current_state)
          ELSE /\ source_state' = source_state
               /\ flow' = [f EXCEPT !.step = "created"]
    /\ UNCHANGED cover_vars

---------------------------------------------------------------------------
(* The states of the controller, in the words of the spec *)

Idle == movement_direction = None
Moving == movement_direction # None

\* Timer tasks that are armed: sleeping, neither fired nor cancelled.
PendingTimers == {t \in TimerIds : timers[t].st = "sleeping"}

---------------------------------------------------------------------------
(* The specification *)

\* __init__ (91-97), then async_added_to_hass restoring the last position.
Init ==
    /\ current_position \in RestoredPositions
    /\ target_position = Unset
    /\ movement_elapsed = Unset
    /\ movement_start_position = Unset
    /\ movement_direction = None
    /\ movement_owner = NoOwner
    /\ position_timer = Unset
    /\ timers = [t \in TimerIds |-> FreeTimer]
    /\ coros = [c \in CoroIds |-> FreeCoro]
    /\ source_state \in {None, STATE_OPEN, STATE_CLOSED}
    /\ supports_stop \in BOOLEAN
    /\ calls = 0
    /\ removal = NotRemoved
    /\ flow = NewFlow
    /\ device_call = None

\* What runs without a caller: the commands under way, the timer tasks, the
\* listener and time.
Background ==
    \/ \E c \in CoroIds : ResumeCancel(c)
    \/ \E c \in CoroIds : ResumeSettle(c)
    \/ \E c \in CoroIds : ResumeMove(c)
    \/ \E c \in CoroIds : CallFails(c)
    \/ \E t \in TimerIds : TimerFire(t)
    \/ \E t \in TimerIds : TimerSettled(t)
    \/ \E t \in TimerIds : TimerCallFails(t)
    \/ \E t \in TimerIds : TimerCancelled(t)
    \/ \E event \in SourceEvents : _async_source_state_changed(event)
    \/ Tick

Next ==
    \/ async_open_cover
    \/ async_close_cover
    \/ async_stop_cover
    \/ async_set_cover_position
    \/ Background

\* The entity from async_added_to_hass on, for as long as it is registered.
Spec == Init /\ [][Next]_vars

\* The same entity, which may also be removed at any moment.
RemovalNext ==
    \/ Next
    \/ async_will_remove_from_hass
    \/ ResumeRemove
    \/ \E event \in SourceEvents : SourceStateUnheard(event)

RemovalSpec == Init /\ [][RemovalNext]_vars

\* The entity with callers that hand set_position positions outside 0..100.
UncheckedNext ==
    \/ async_open_cover
    \/ async_close_cover
    \/ async_stop_cover
    \/ async_set_cover_position_out_of_range
    \/ Background

UncheckedSpec == Init /\ [][UncheckedNext]_vars

\* The calibration wizard alone, before any entity exists.
CalibrationNext ==
    \/ async_step_user
    \/ \E delay \in CallDelays : CalibrationCallReturns(delay)
    \/ CalibrationCallFails
    \/ \E state \in ReportedStates : state_listener(state)
    \/ WaitTick
    \/ WaitReturns
    \/ WaitTimesOut
    \/ async_step_calibrate_pre_open_done
    \/ async_step_calibrate_close_done
    \/ async_step_calibrate_open_done
    \/ async_step_calibrate_result

CalibrationSpec == Init /\ [][CalibrationNext]_vars

\* A service call returns or raises, time passes, and a task whose wait is
\* over runs.
CalibrationFairness ==
    /\ WF_vars((\E delay \in CallDelays : CalibrationCallReturns(delay)) \/ CalibrationCallFails)
    /\ WF_vars(WaitTick)
    /\ WF_vars(WaitReturns)
    /\ WF_vars(WaitTimesOut)

CalibrationFairSpec == CalibrationSpec /\ CalibrationFairness

\* The entity with callers that only call open() and close(), each once the
\* movement before it has been finalized (by the source's endpoint event).
RoundTripNext ==
    \/ Idle /\ async_open_cover
    \/ Idle /\ async_close_cover
    \/ \E c \in CoroIds : ResumeMove(c)
    \/ \E c \in CoroIds : CallFails(c)
    \/ \E event \in SourceEvents : _async_source_state_changed(event)
    \/ Tick

RoundTripSpec == Init /\ [][RoundTripNext]_vars

\* The event loop runs every task that is ready, a device call returns or
\* raises, and time passes; callers and the device are under no obligation.
Fairness ==
    /\ \A c \in CoroIds : WF_vars(ResumeCancel(c))
    /\ \A c \in CoroIds : WF_vars(ResumeSettle(c) \/ ResumeMove(c) \/ CallFails(c))
    /\ \A t \in TimerIds : WF_vars(TimerFire(t))
    /\ \A t \in TimerIds : WF_vars(TimerSettled(t) \/ TimerCallFails(t))
    /\ \A t \in TimerIds : WF_vars(TimerCancelled(t))
    /\ WF_vars(Tick)

FairSpec == Spec /\ Fairness

---------------------------------------------------------------------------
(* Properties *)

\* C1: in every reachable state the value current_cover_position returns is
\* an integer from 0 to 100, Idle or Moving, whatever time has elapsed.
C1_PositionInRange ==
    current_cover_position(Self) \in POSITION_CLOSED..POSITION_OPEN

\* C1's case: a closing movement from 30 whose raw estimate, 30 - 100, is
\* below the range and is reported as 0.
C1_Witness ==
    /\ movement_direction = "closing"
    /\ movement_start_position = 30
    /\ movement_elapsed = 1
    /\ Unclamped_calculate_current_position(Self) < POSITION_CLOSED
    /\ current_cover_position(Self) = POSITION_CLOSED

\* C2: an endpoint event (position 0 or 100), in any state, leaves the
\* controller Idle at exactly the signalled endpoint with no stop timer armed.
C2_EndpointOverride ==
    [][\A event \in SourceEvents :
          (event.position \in {0, 100} /\ _async_source_state_changed(event))
          => /\ Idle'
             /\ current_cover_position(Self)' = event.position
             /\ PendingTimers' = {}]_vars

\* C3: in every reachable state, await points included, a stop timer is
\* armed if and only if the controller is Moving in a movement that
\* set_position started.
C3_PendingIffTargetDriven ==
    (PendingTimers # {}) <=> (Moving /\ movement_owner.op = "set")

\* C4: at most one stop timer is armed at any time.
C4_AtMostOneTimer ==
    Cardinality(PendingTimers) <= 1

\* C5: a stop timer armed for an earlier movement never fires once a new
\* command has started a new movement: no timer fires into the movement of
\* another command.
C5_NoStaleFire ==
    [][\A t \in TimerIds :
          TimerFire(t) => ~(Moving /\ movement_owner.call # t)]_vars

\* C6: a movement that open() or close() started, its command accepted by
\* the device and returned, eventually ends in Idle (no endpoint event and
\* no further command being needed for that).
C6_MovementCompletes ==
    (/\ Moving
     /\ movement_owner.op \in {"open", "close"}
     /\ coros[movement_owner.call].pc = "free"
     /\ device_call \in {SERVICE_OPEN_COVER, SERVICE_CLOSE_COVER}) ~> Idle

\* C7: open() while Idle at 100, and close() while Idle at 0, leave the
\* controller Idle at the same position and set no device call going.
C7_NoOpAtExtreme ==
    [][(\/ (Idle /\ current_position = POSITION_OPEN /\ async_open_cover)
        \/ (Idle /\ current_position = POSITION_CLOSED /\ async_close_cover))
       => /\ Idle'
          /\ current_position' = current_position
          /\ coros' = coros]_vars

\* C8: when the Open/Close call of a command fails, the movement that the
\* command started is not left under way: the controller is Idle and no
\* stop timer is armed.
C8_FailedSendLeavesIdle ==
    [][\A c \in CoroIds :
          (coros[c].pc = "await_move" /\ movement_owner.call = c /\ CallFails(c))
          => (Idle' /\ PendingTimers' = {})]_vars

\* C9: set_position(p) while Idle at q # p starts Moving from q to p, opening
\* with an Open call if p > q and closing with a Close call if p < q; when
\* that call returns the command is what the device accepted and the stop
\* timer is armed with |p - q| / 100 * time_to_open (opening) or
\* |p - q| / 100 * time_to_close (closing), here in hundredths of a tick.
C9_Start ==
    \A p \in Targets :
        (Idle /\ p # current_position /\ Invoke("set", p))
        => LET q == current_position
               c == calls + 1
           IN /\ movement_direction' = (IF p > q THEN "opening" ELSE "closing")
              /\ movement_start_position' = q
              /\ target_position' = p
              /\ movement_elapsed' = 0
              /\ coros'[c].pc = "await_move"
              /\ coros'[c].service =
                     (IF p > q THEN SERVICE_OPEN_COVER ELSE SERVICE_CLOSE_COVER)

C9_Arm ==
    \A c \in CoroIds :
        (coros[c].op = "set" /\ movement_owner.call = c /\ ResumeMove(c))
        => LET q == movement_start_position
               p == target_position
           IN /\ device_call' = (IF p > q THEN SERVICE_OPEN_COVER ELSE SERVICE_CLOSE_COVER)
              /\ position_timer' = c
              /\ timers'[c].st = "sleeping"
              /\ timers'[c].target = p
              /\ timers'[c].remaining =
                     (IF p > q THEN (p - q) * time_to_open ELSE (q - p) * time_to_close)

\* C9: every step that starts a set_position from Idle, and every step that
\* arms its timer, is as C9_Start and C9_Arm say.
C9_SetPositionStartsAndArms ==
    [][C9_Start /\ C9_Arm]_vars

\* C9's case: set_position(50) from Idle at 30 has opened and armed its
\* timer with 20 / 100 * time_to_open.
C9_Witness ==
    /\ position_timer # Unset
    /\ timers[position_timer].st = "sleeping"
    /\ timers[position_timer].remaining = 20 * time_to_open
    /\ timers[position_timer].target = 50
    /\ movement_direction = "opening"
    /\ movement_start_position = 30
    /\ device_call = SERVICE_OPEN_COVER

\* The firing of the timer of a movement that nothing has interrupted.
C10_Fires(t) ==
    Moving /\ movement_owner.call = t /\ TimerFire(t)

\* C10 as claimed: such a firing leaves the controller Idle at exactly the
\* timer's target and, the source state being available, issues one settle
\* command.
C10_FireSettlesOnce ==
    [][\A t \in TimerIds :
          C10_Fires(t)
          => /\ Idle'
             /\ current_position' = timers[t].target
             /\ (source_state # None => timers'[t].st = "settling")]_vars

\* C10 as amended: such a firing leaves the controller Idle at exactly the
\* timer's target; it issues one settle command if the source state is
\* available and the source either supports STOP or reports opening or
\* closing, and none otherwise; the task ends when that call returns.
C10_FireSettlesAtMostOnce ==
    [][\A t \in TimerIds :
          /\ C10_Fires(t)
             => /\ Idle'
                /\ current_position' = timers[t].target
                /\ (timers'[t].st = "settling")
                     <=> (/\ source_state # None
                          /\ (supports_stop
                                 \/ source_state \in {STATE_OPENING, STATE_CLOSING}))
                /\ timers'[t].st \in {"settling", "done", "free"}
          /\ (TimerSettled(t) \/ TimerCallFails(t))
             => timers'[t].st \in {"done", "free"}]_vars

\* C10's case: the timer of set_position(50) has fired on a source without
\* STOP that reports open: the controller is Idle at 50 and the task has
\* ended without a settle call.
C10_Witness ==
    /\ Idle
    /\ current_position = 50
    /\ ~supports_stop
    /\ source_state = STATE_OPEN
    /\ position_timer # Unset
    /\ timers[position_timer].st = "done"
    /\ calls = 1

\* C11: while a movement that set_position(p) started from position q is
\* under way, the live estimate lies between q and p inclusive: it never
\* overshoots p.
C11_EstimateWithinSegment ==
    (Moving /\ movement_owner.op = "set")
    => LET estimate == current_cover_position(Self)
           q == movement_start_position
           p == target_position
       IN Min(q, p) <= estimate /\ estimate <= Max(q, p)

\* C12: open() called right after the Open command of an open() was
\* delivered, nothing having happened in between, sends no second Open
\* command.
C12_OpenIdempotent ==
    [][(/\ device_call = SERVICE_OPEN_COVER
        /\ Moving
        /\ movement_owner.op = "open"
        /\ async_open_cover)
       => \A c \in CoroIds : coros'[c].service # SERVICE_OPEN_COVER]_vars

\* C13: stop() while Moving leaves the controller Idle, its believed position
\* the estimate of the instant of the call, and no stop timer armed (so that
\* nothing changes the position afterwards).
C13_StopFreezes ==
    [][(Moving /\ async_stop_cover)
       => /\ Idle'
          /\ current_position' = current_cover_position(Self)
          /\ PendingTimers' = {}]_vars

\* The step in which the stop() command c selects its settle command: its
\* call if it has no timer to wait for, else the end of that wait.
C14_StopSelects(c) ==
    \/ c = calls + 1 /\ Moving /\ async_stop_cover /\ coros'[c].pc # "await_cancel"
    \/ coros[c].op = "stop" /\ ResumeCancel(c)

\* C14 as claimed: on a source without STOP, stop() while Moving sends the
\* reverse of the direction the controller is moving in: Close while
\* opening, Open while closing.
C14_ReverseOfMovement ==
    [][(Moving /\ ~supports_stop /\ async_stop_cover)
       => LET c == calls + 1
          IN \/ coros'[c].pc = "await_cancel"
             \/ /\ coros'[c].pc = "await_settle"
                /\ coros'[c].service = (IF movement_direction = "opening"
                                        THEN SERVICE_CLOSE_COVER
                                        ELSE SERVICE_OPEN_COVER)]_vars

\* C14 as amended: on a source without STOP, the settle command of stop() is
\* the reverse of the direction the source reports: Close if it reports
\* opening, Open if it reports closing, and none if it reports another state
\* or has no state; the command sent is the one the device is handed.
C14_ReverseOfReported ==
    [][\A c \in CoroIds :
          /\ (~supports_stop /\ C14_StopSelects(c))
             => IF source_state = STATE_OPENING
                THEN coros'[c].pc = "await_settle"
                     /\ coros'[c].service = SERVICE_CLOSE_COVER
                ELSE IF source_state = STATE_CLOSING
                THEN coros'[c].pc = "await_settle"
                     /\ coros'[c].service = SERVICE_OPEN_COVER
                ELSE coros'[c].pc = "free"
          /\ (coros[c].op = "stop" /\ ResumeSettle(c))
             => device_call' = coros[c].service]_vars

\* C14's case: open() from 30 has run for a tick (estimate 80), the source
\* without STOP reports opening, and stop() has sent Close.
C14_Witness ==
    /\ calls = 2
    /\ ~supports_stop
    /\ source_state = STATE_OPENING
    /\ Idle
    /\ current_position = 80
    /\ coros[2].op = "stop"
    /\ coros[2].pc = "await_settle"
    /\ coros[2].service = SERVICE_CLOSE_COVER

\* C15: whenever a command starts its movement, every earlier movement is
\* finalized: no stop timer is armed, no other command has its Open/Close
\* call under way, and the movement starts from the believed position.
C15_FinalizeBeforeStart ==
    [][\A c \in CoroIds :
          (movement_owner'.call = c /\ movement_owner.call # c)
          => /\ PendingTimers = {}
             /\ \A d \in CoroIds \ {c} : coros[d].pc # "await_move"
             /\ movement_start_position' = current_position']_vars

\* C16: once async_will_remove_from_hass has completed, the listener is
\* unsubscribed and no stop timer is armed (so that none fires afterwards).
C16_TeardownLeavesNothing ==
    removal.pc = "done" => (~removal.subscribed /\ PendingTimers = {})

\* C17: set_position(p) with p outside 0..100 is rejected: it starts no
\* movement, sets no device call going, arms no timer and leaves the
\* believed position as it is.
C17_OutOfRangeRejected ==
    [][\A p \in OutOfRangeTargets :
          Invoke("set", p)
          => /\ UNCHANGED <<current_position, target_position, movement_direction,
                            movement_start_position, movement_elapsed,
                            position_timer, timers>>
             /\ coros' = coros]_vars

\* C19: with open() and close() each called once the movement before it is
\* finalized, no timer task ever exists; once a command has been called the
\* controller is Idle only at an endpoint; and the endpoint event that
\* finalizes a movement leaves the controller Idle at the signalled endpoint
\* with no target left.
C19_RoundTrip ==
    /\ [](/\ position_timer = Unset
          /\ \A t \in TimerIds : timers[t].st = "free"
          /\ (Idle /\ calls > 0)
             => current_position \in {POSITION_CLOSED, POSITION_OPEN})
    /\ [][\A event \in SourceEvents :
             (event.position \in {0, 100} /\ _async_source_state_changed(event))
             => /\ Idle'
                /\ current_cover_position(Self)' = event.position
                /\ target_position' = Unset]_vars

\* C19's case: three calls of open() and close() have each been finalized,
\* the last one at the open endpoint, and every call has returned.
C19_Witness ==
    /\ calls = 3
    /\ InFlight = {}
    /\ Idle
    /\ source_state = STATE_OPEN
    /\ current_position = POSITION_OPEN
    /\ PendingTimers = {}

\* A measurement step of the wizard.
C20_Measuring == flow.step \in {"calibrate_close", "calibrate_open"}

\* C20: a measurement that waits for the end state ends, by the report of
\* that state or by the timeout; when it ends by the timeout the travel time
\* of its direction is DEFAULT_TIMEOUT exactly (the other one as it was) and
\* its task has finished without an exception; and the step that follows a
\* finished close measurement is the open measurement, then the result, the
\* recorded times carried along.
C20_CalibrationDegrades ==
    /\ [][(C20_Measuring /\ WaitTimesOut)
          => /\ flow'.task = "finished"
             /\ flow'.step = flow.step
             /\ IF flow.step = "calibrate_close"
                THEN /\ flow'.time_to_close = Centi(DEFAULT_TIMEOUT)
                     /\ flow'.time_to_open = flow.time_to_open
                ELSE /\ flow'.time_to_open = Centi(DEFAULT_TIMEOUT)
                     /\ flow'.time_to_close = flow.time_to_close]_vars
    /\ [][(async_step_calibrate_close_done \/ async_step_calibrate_open_done)
          => /\ flow'.step = (IF flow.step = "calibrate_close"
                              THEN "calibrate_open" ELSE "calibrate_result")
             /\ flow'.time_to_close = flow.time_to_close
             /\ flow'.time_to_open = flow.time_to_open]_vars
    /\ ((C20_Measuring /\ flow.task = "waiting") ~> (flow.task = "finished"))

\* C20's case: the close measurement has ended by its timeout, with the
\* warning logged and 60 s recorded, and the open measurement can start.
C20_Witness ==
    /\ flow.step = "calibrate_close"
    /\ flow.task = "finished"
    /\ flow.warned
    /\ flow.time_to_close = Centi(DEFAULT_TIMEOUT)
    /\ ENABLED async_step_calibrate_close_done

\* The stop timer t is ready: its sleep is over and it has not run yet.
C18_Ready(t) ==
    /\ position_timer = t
    /\ timers[t].st = "sleeping"
    /\ timers[t].remaining = 0

C21_StoredTimesPositive ==
    \A i \in 1..Len(flow.calibration_data) :
        /\ flow.calibration_data[i].time_to_open > 0
        /\ flow.calibration_data[i].time_to_close > 0

\* The settle command as the claim C22 words it; None for no command.  A
\* source that has no state advertises no feature.
C22_Selection ==
    IF source_state # None /\ supports_stop THEN SERVICE_STOP_COVER
    ELSE IF source_state = STATE_OPENING THEN SERVICE_CLOSE_COVER
    ELSE IF source_state = STATE_CLOSING THEN SERVICE_OPEN_COVER
    ELSE None

\* The step in which the stop() command c selects its settle command,
\* Moving or Idle: its call if it has no timer to wait for, else the end of
\* that wait.
C22_StopSelects(c) ==
    \/ c = calls + 1 /\ async_stop_cover /\ coros'[c].pc # "await_cancel"
    \/ coros[c].op = "stop" /\ ResumeCancel(c)

\* C22: stop() and a stop timer that fires select the same settle command:
\* Stop if the source advertises STOP; else Close if the source reports
\* opening, Open if it reports closing, and no command for any other state
\* or no state.  The selected command is the only one sent: the device is
\* handed that service, and stop() and the timer end after it.
C22_SettleSelection ==
    [][/\ \A c \in CoroIds :
             /\ C22_StopSelects(c)
                => IF C22_Selection # None
                   THEN /\ coros'[c].pc = "await_settle"
                        /\ coros'[c].service = C22_Selection
                   ELSE coros'[c].pc = "free"
             /\ (coros[c].op = "stop" /\ ResumeSettle(c))
                => /\ device_call' = coros[c].service
                   /\ coros'[c].pc = "free"
       /\ \A t \in TimerIds :
             /\ TimerFire(t)
                => IF C22_Selection # None
                   THEN /\ timers'[t].st = "settling"
                        /\ timers'[t].service = C22_Selection
                   ELSE timers'[t].st \in {"done", "free"}
             /\ TimerSettled(t)
                => /\ device_call' = timers[t].service
                   /\ timers'[t].st \in {"done", "free"}]_vars

\* C22's case: the stop timer of set_position(50) has fired on a source
\* without STOP that reports opening, and the device has been handed Close.
C22_Witness ==
    /\ calls = 1
    /\ ~supports_stop
    /\ source_state = STATE_OPENING
    /\ Idle
    /\ current_position = 50
    /\ timers[1].st = "done"
    /\ device_call = SERVICE_CLOSE_COVER

\* C23: at every await point and between operations the four movement
\* fields are set together or not at all: a direction comes with its start
\* time, start position and target, and an Idle controller has none of
\* them left.
C23_MovementFieldsLockstep ==
    \/ /\ movement_direction \in {"opening", "closing"}
       /\ movement_elapsed # Unset
       /\ movement_start_position # Unset
       /\ target_position # Unset
    \/ /\ movement_direction = None
       /\ movement_elapsed = Unset
       /\ movement_start_position = Unset
       /\ target_position = Unset

\* C23's case: open() from 30 has set the four fields, a tick has passed,
\* and stop() is suspended at its settle call having cleared all four.
C23_Witness ==
    /\ calls = 2
    /\ coros[2].op = "stop"
    /\ coros[2].pc = "await_settle"
    /\ current_position = 80
    /\ movement_direction = None
    /\ movement_elapsed = Unset
    /\ movement_start_position = Unset
    /\ target_position = Unset

\* C24: the settle command of a stop timer that has fired is never handed
\* to the device after the Open/Close command of a later movement: when the
\* timer's settle call is delivered, the controller is not Moving in a
\* movement whose Open/Close the device has already taken.  (A timer that
\* fires clears the movement, so a movement under way while the timer is in
\* its settle call was started after the timer fired.)
C24_SettleNotAfterLaterCommand ==
    [][\A t \in TimerIds :
          (TimerSettled(t) /\ device_call' # None)
          => ~(Moving /\ movement_owner.sent)]_vars

====
